---------------------------- MODULE Spec2Model ----------------------------
(***************************************************************************)
(* scan2eat-backend: the order and menu HTTP routes over the Order and     *)
(* MenuItem stores, the x-access-token gate and the socket.io broadcast.   *)
(*                                                                         *)
(* src/ holds four snapshots of the server:                                *)
(*   "v1"  src/server.js 1-153        item validation, allow-list, emit    *)
(*   "v2"  src/server.js 155-347      menu routes, no item validation      *)
(*   "v3"  src/unnamed/part_001       requireStaff on PATCH /api/orders    *)
(*   "v4"  src/unnamed/part_002       no try/catch, no emit, no allow-list *)
(* and two snapshots of models/Order.js (src/unnamed/part_000):            *)
(*   "s1"  lines 1-53                 required fields only                 *)
(*   "s2"  lines 55-120               qty >= 1, price >= 0, total >= 0     *)
(* The deployed pair is chosen in Init and never changes.                  *)
(***************************************************************************)
EXTENDS Integers, Sequences, FiniteSets, TLC

(***************************************************************************)
(* Bounds.                                                                 *)
(***************************************************************************)
\* requests served in one run; each occupies one slot of req
MaxReq == 2
\* line items in one submitted order
MaxItems == 2

(***************************************************************************)
(* JavaScript values, as far as the handlers look at them.  A value is a   *)
(* record [t, v, s]: t is what typeof answers (null answers "object"), v   *)
(* the integer of a number, s the text of a string; for a number s is ""   *)
(* or marks NaN or a fractional part.  A string whose text is the decimal  *)
(* form of an integer n is NumStr(n).  Fractional numbers occur only as a  *)
(* tableId; money and quantities are integers (smallest currency unit).    *)
(***************************************************************************)
Undef == [t |-> "undefined", v |-> 0, s |-> ""]
Null == [t |-> "object", v |-> 0, s |-> ""]
Num(n) == [t |-> "number", v |-> n, s |-> ""]
NaN == [t |-> "number", v |-> 0, s |-> "NaN"]
Frac(n) == [t |-> "number", v |-> n, s |-> ".5"]
Str(x) == [t |-> "string", v |-> 0, s |-> x]
NumStr(n) == [t |-> "string", v |-> n, s |-> "#"]
Bool(b) == [t |-> "boolean", v |-> IF b THEN 1 ELSE 0, s |-> ""]

IsNaN(x) == x.t = "number" /\ x.s = "NaN"

\* Number.isInteger(x)
NumberIsInteger(x) == x.t = "number" /\ x.s = ""

\* ToNumber, the coercion the * operator applies to each operand
ToNumber(x) ==
    CASE x.t = "number" -> x
      [] x.t = "undefined" -> NaN
      [] x.t = "object" -> Num(0)
      [] x.t = "boolean" -> Num(x.v)
      [] x.t = "string" -> IF x.s = "#" THEN Num(x.v) ELSE NaN

\* a * b
Mul(a, b) ==
    LET x == ToNumber(a)
        y == ToNumber(b)
    IN  IF IsNaN(x) \/ IsNaN(y) THEN NaN ELSE Num(x.v * y.v)

\* a + b on two numbers (the accumulator of reduce starts at 0 and a product
\* is always a number, so + never concatenates here)
Add(a, b) == IF IsNaN(a) \/ IsNaN(b) THEN NaN ELSE Num(a.v + b.v)

(***************************************************************************)
(* The deployment.                                                         *)
(***************************************************************************)
Variants == {"v1", "v2", "v3", "v4"}
Schemas == {"s1", "s2"}
\* process.env.CASHIER_TOKEN / KITCHEN_TOKEN: a string, or undefined when unset
CashierSecrets == {Str("cashier-secret"), Undef}
KitchenSecrets == {Str("kitchen-secret"), Undef}
\* what a client may send as x-access-token (undefined: no such header)
Tokens == {Undef, Str("cashier-secret"), Str("kitchen-secret")}

HasEmit(v) == v \in {"v1", "v2", "v3"}
HasMenu(v) == v \in {"v2", "v3"}
HasMenuPatch(v) == v = "v2"

VARIABLES
    variant,   \* which server snapshot runs
    schema,    \* which Order schema snapshot it loads
    env,       \* process.env: [CASHIER_TOKEN, KITCHEN_TOKEN]
    menuDefault, \* MenuItem.available's schema default
    orders,    \* the Order collection, in createdAt order
    menu,      \* the MenuItem collection, in createdAt order
    req,       \* the requests: slot -> request record
    events     \* what io.emit has broadcast, in order

vars == <<variant, schema, env, menuDefault, orders, menu, req, events>>
config == <<variant, schema, env, menuDefault>>

Slots == 1 .. MaxReq

(***************************************************************************)
(* Mongoose: casting and validation of an Order (models/Order.js).         *)
(***************************************************************************)
\* SchemaNumber's cast accepts a number other than NaN, a numeric string, a
\* boolean, null and undefined; anything else is a CastError
CanCastNumber(x) ==
    \/ x.t \in {"undefined", "object", "boolean"}
    \/ x.t = "number" /\ ~IsNaN(x)
    \/ x.t = "string" /\ x.s = "#"

CastNumber(x) == IF x.t \in {"string", "boolean"} THEN ToNumber(x) ELSE x

\* SchemaString's cast: a number becomes its decimal text
CastString(x) == IF x.t = "number" /\ x.s = "" THEN NumStr(x.v) ELSE x

\* the required validator: null and undefined fail (and "" for a string)
Present(x) == x.t \notin {"undefined", "object"} /\ x # Str("")

\* the min validator runs on a cast number
AtLeast(x, m) == x.t = "number" /\ x.v >= m

\* ItemSchema: name, qty, price required; the later snapshot adds min bounds
ItemValid(s, i) ==
    /\ Present(i.name)
    /\ CanCastNumber(i.qty) /\ Present(i.qty)
    /\ CanCastNumber(i.price) /\ Present(i.price)
    /\ s = "s2" => AtLeast(CastNumber(i.qty), 1) /\ AtLeast(CastNumber(i.price), 0)

ItemCast(i) ==
    [name |-> CastString(i.name), qty |-> CastNumber(i.qty), price |-> CastNumber(i.price)]

OrderStatuses == {"pending", "cooking", "ready", "completed"}

\* the enum validator; like every validator but required it is skipped for
\* undefined
StatusValid(st) == st = Undef \/ (st.t = "string" /\ st.s \in OrderStatuses)

\* OrderSchema: does Order.create(data) pass casting and validation?
OrderValid(s, data) ==
    /\ CanCastNumber(data.tableId) /\ Present(data.tableId)
    /\ \A k \in 1 .. Len(data.items) : ItemValid(s, data.items[k])
    /\ CanCastNumber(data.total) /\ Present(data.total)
    /\ s = "s2" => AtLeast(CastNumber(data.total), 0)
    /\ StatusValid(data.status)

\* the document Order.create(data) stores: cast fields, defaults filled in
OrderDoc(id, data) ==
    [id |-> id,
     tableId |-> CastNumber(data.tableId),
     items |-> [k \in 1 .. Len(data.items) |-> ItemCast(data.items[k])],
     total |-> CastNumber(data.total),
     status |-> IF data.status = Undef THEN Str("pending") ELSE data.status,
     paid |-> Bool(FALSE)]

(***************************************************************************)
(* Requests.  id is the :id path parameter: 0 stands for a string that is  *)
(* no ObjectId, n >= 1 for the ObjectId the store gave its n-th document   *)
(* (or would give: an id beyond the collection resolves to nothing).       *)
(***************************************************************************)
NoItems == [t |-> "undefined", e |-> <<>>]
Items(e) == [t |-> "array", e |-> e]

NoBody ==
    [tableId |-> Undef, items |-> NoItems, total |-> Undef,
     status |-> Undef, available |-> Undef, name |-> Undef, price |-> Undef]

Idle ==
    [route |-> "none", token |-> Undef, id |-> 0, body |-> NoBody,
     pc |-> "idle", doc |-> <<>>, code |-> 0, out |-> <<>>]

\* a request as it arrives: nothing computed, nothing answered (code 0)
Arrive(route, token, id, body) ==
    [route |-> route, token |-> token, id |-> id, body |-> body,
     pc |-> "run", doc |-> <<>>, code |-> 0, out |-> <<>>]

\* res.status(code).json(out): the handler returns after it in every path
Respond(q, code, out) == [q EXCEPT !.pc = "done", !.code = code, !.out = out]

\* the async handler's promise rejects and nothing catches it: Express 4
\* never answers the request
Reject(q) == [q EXCEPT !.pc = "rejected"]

\* the lowest free slot takes the next request
FreeSlot(r) == req[r].pc = "idle" /\ \A p \in 1 .. r - 1 : req[p].pc # "idle"

IsObjectId(id) == id >= 1

(***************************************************************************)
(* The Access Gate.                                                        *)
(***************************************************************************)
\* requireCashier: next() unless token !== process.env.CASHIER_TOKEN
requireCashier(token) == ~(token # env.CASHIER_TOKEN)

\* requireStaff: next() if token === CASHIER_TOKEN || token === KITCHEN_TOKEN
requireStaff(token) == token = env.CASHIER_TOKEN \/ token = env.KITCHEN_TOKEN

(***************************************************************************)
(* POST /api/orders                                                        *)
(***************************************************************************)
\* items.reduce((sum, i) => sum + i.price * i.qty, 0)
RECURSIVE Reduce(_, _)
Reduce(items, sum) ==
    IF items = <<>> THEN sum
    ELSE Reduce(Tail(items), Add(sum, Mul(Head(items).price, Head(items).qty)))

\* a handler that keeps a total the client sent instead of computing it
ComputeTotalTrusting(body) ==
    IF body.total # Undef THEN body.total ELSE Reduce(body.items.e, Num(0))

ComputeTotal(body) == Reduce(body.items.e, Num(0))

\* !Number.isInteger(tableId) || !Array.isArray(items) || !items.length
InvalidOrder(body) ==
    \/ ~NumberIsInteger(body.tableId)
    \/ body.items.t # "array"
    \/ Len(body.items.e) = 0

\* items.every(i => typeof i.name === "string" && typeof i.price === "number"
\*                  && typeof i.qty === "number"), in the v1 snapshot only
ItemsTyped(body) ==
    \A k \in 1 .. Len(body.items.e) :
        /\ body.items.e[k].name.t = "string"
        /\ body.items.e[k].price.t = "number"
        /\ body.items.e[k].qty.t = "number"

\* the argument of Order.create
CreateData(body) ==
    [tableId |-> body.tableId, items |-> body.items.e,
     total |-> ComputeTotal(body), status |-> Str("pending")]

\* io.emit(name, payload)
Emit(name, payload, r) == Append(events, [name |-> name, doc |-> payload, by |-> r])

\* The handler from the request's arrival to its answer.  dbOk: the store
\* carries out the insert; emitOk: io.emit returns rather than throws.
PostOrders(r, body, dbOk, emitOk) ==
    /\ FreeSlot(r)
    /\ LET q == Arrive("POST /api/orders", Undef, 0, body)
           data == CreateData(body)
           created == OrderValid(schema, data) /\ dbOk
           order == OrderDoc(Len(orders) + 1, data)
           caught == variant # "v4"
       IN  IF InvalidOrder(body)
           THEN /\ req' = [req EXCEPT ![r] = Respond(q, 400, <<>>)]
                /\ UNCHANGED <<orders, events>>
           ELSE IF variant = "v1" /\ ~ItemsTyped(body)
           THEN /\ req' = [req EXCEPT ![r] = Respond(q, 400, <<>>)]
                /\ UNCHANGED <<orders, events>>
           ELSE IF ~created
           THEN /\ req' = [req EXCEPT ![r] =
                              IF caught THEN Respond(q, 500, <<>>) ELSE Reject(q)]
                /\ UNCHANGED <<orders, events>>
           ELSE /\ orders' = Append(orders, order)
                /\ IF ~HasEmit(variant)
                   THEN /\ req' = [req EXCEPT ![r] = Respond(q, 201, <<order>>)]
                        /\ UNCHANGED events
                   ELSE IF emitOk
                   THEN /\ events' = Emit("order:new", <<order>>, r)
                        /\ req' = [req EXCEPT ![r] = Respond(q, 201, <<order>>)]
                   ELSE /\ req' = [req EXCEPT ![r] = Respond(q, 500, <<>>)]
                        /\ UNCHANGED events
    /\ UNCHANGED <<config, menu>>

(***************************************************************************)
(* GET /api/orders                                                         *)
(***************************************************************************)
\* Order.find(filter).sort({createdAt: 1}); only v1 reads req.query.status
OrderFilter(status) == IF variant = "v1" /\ status # Undef THEN status ELSE Undef

OrderFind(filter) ==
    SelectSeq(orders, LAMBDA o : filter = Undef \/ o.status = filter)

\* No snapshot wraps the await in try/catch.
GetOrders(r, status, dbOk) ==
    /\ FreeSlot(r)
    /\ LET q == Arrive("GET /api/orders", Undef, 0, [NoBody EXCEPT !.status = status])
       IN  req' = [req EXCEPT ![r] =
                      IF dbOk THEN Respond(q, 200, OrderFind(OrderFilter(status)))
                      ELSE Reject(q)]
    /\ UNCHANGED <<config, orders, menu, events>>

(***************************************************************************)
(* PATCH /api/orders/:id, in three steps: the middleware, the allow-list   *)
(* and findById; the save; the emit and the answer.  Other requests run    *)
(* between the steps.                                                      *)
(***************************************************************************)
\* the middleware in front of the route
OrderGate(token) == IF variant = "v3" THEN requireStaff(token) ELSE requireCashier(token)

\* allowed.includes(status); the v4 snapshot has no such check
StatusAllowed(status) ==
    variant = "v4" \/ (status.t = "string" /\ status.s \in OrderStatuses)

PatchOrdersFind(r, token, id, status, dbOk) ==
    /\ FreeSlot(r)
    /\ LET q == Arrive("PATCH /api/orders/:id", token, id, [NoBody EXCEPT !.status = status])
       IN  req' = [req EXCEPT ![r] =
                IF ~OrderGate(token) THEN Respond(q, 401, <<>>)
                ELSE IF ~StatusAllowed(status) THEN Respond(q, 400, <<>>)
                \* Order.findById: a CastError for a string that is no
                \* ObjectId, or the store fails; nothing catches either
                ELSE IF ~IsObjectId(id) \/ ~dbOk THEN Reject(q)
                ELSE IF id > Len(orders) THEN Respond(q, 404, <<>>)
                ELSE [q EXCEPT !.pc = "save", !.doc = <<orders[id]>>]]
    /\ UNCHANGED <<config, orders, menu, events>>

\* order.status = status; await order.save().  save validates, then writes
\* the paths that differ from the document as it was read: $set status, or
\* $unset for undefined; with nothing modified it sends nothing.
SavedStatus(q) == q.body.status

PatchOrdersSave(r, dbOk) ==
    /\ req[r].pc = "save"
    /\ LET q == req[r]
           new == SavedStatus(q)
           modified == new # q.doc[1].status
           doc == [q.doc[1] EXCEPT !.status = new]
       IN  IF modified /\ (~StatusValid(new) \/ ~dbOk)
           THEN /\ req' = [req EXCEPT ![r] = Reject(q)]
                /\ UNCHANGED orders
           ELSE /\ req' = [req EXCEPT ![r] = [q EXCEPT !.pc = "emit", !.doc = <<doc>>]]
                /\ orders' = IF modified THEN [orders EXCEPT ![q.id].status = new]
                             ELSE orders
    /\ UNCHANGED <<config, menu, events>>

\* io.emit("order:update", order); res.json(order).  A throw of io.emit
\* rejects the handler's promise; the v4 snapshot has no io at all.
PatchOrdersEmit(r, emitOk) ==
    /\ req[r].pc = "emit"
    /\ LET q == req[r]
       IN  IF ~HasEmit(variant)
           THEN /\ req' = [req EXCEPT ![r] = Respond(q, 200, q.doc)]
                /\ UNCHANGED events
           ELSE IF emitOk
           THEN /\ events' = Emit("order:update", q.doc, r)
                /\ req' = [req EXCEPT ![r] = Respond(q, 200, q.doc)]
           ELSE /\ req' = [req EXCEPT ![r] = Reject(q)]
                /\ UNCHANGED events
    /\ UNCHANGED <<config, orders, menu>>

(***************************************************************************)
(* The menu routes (v2, v3).  models/MenuItem.js is not among the sources: *)
(* a MenuItem is [id, name, price, available], name required, available a  *)
(* boolean with a schema default.                                          *)
(***************************************************************************)
MenuItemValid(data) == Present(data.name) /\ CanCastNumber(data.price)

MenuItemDoc(id, data) ==
    [id |-> id, name |-> CastString(data.name), price |-> CastNumber(data.price),
     available |-> Bool(menuDefault)]

\* MenuItem.find(filter).sort({createdAt: 1})
MenuFind(filter) ==
    SelectSeq(menu, LAMBDA m : filter = Undef \/ m.available = filter)

\* a customer menu that forgets the filter
PublicFilterAll == Undef

\* GET /api/menu: MenuItem.find({ available: true })
PublicFilter == Bool(TRUE)

GetMenu(r, dbOk) ==
    /\ FreeSlot(r)
    /\ HasMenu(variant)
    /\ LET q == Arrive("GET /api/menu", Undef, 0, NoBody)
       IN  req' = [req EXCEPT ![r] =
                      IF dbOk THEN Respond(q, 200, MenuFind(PublicFilter)) ELSE Reject(q)]
    /\ UNCHANGED <<config, orders, menu, events>>

\* GET /api/menu/all: requireCashier, MenuItem.find()
GetMenuAll(r, token, dbOk) ==
    /\ FreeSlot(r)
    /\ HasMenu(variant)
    /\ LET q == Arrive("GET /api/menu/all", token, 0, NoBody)
       IN  req' = [req EXCEPT ![r] =
                      IF ~requireCashier(token) THEN Respond(q, 401, <<>>)
                      ELSE IF dbOk THEN Respond(q, 200, MenuFind(Undef))
                      ELSE Reject(q)]
    /\ UNCHANGED <<config, orders, menu, events>>

\* POST /api/menu: requireCashier, MenuItem.create, io.emit("menu:update"),
\* 201; no try/catch
PostMenu(r, token, body, dbOk, emitOk) ==
    /\ FreeSlot(r)
    /\ HasMenu(variant)
    /\ LET q == Arrive("POST /api/menu", token, 0, body)
           item == MenuItemDoc(Len(menu) + 1, body)
       IN  IF ~requireCashier(token)
           THEN /\ req' = [req EXCEPT ![r] = Respond(q, 401, <<>>)]
                /\ UNCHANGED <<menu, events>>
           ELSE IF ~MenuItemValid(body) \/ ~dbOk
           THEN /\ req' = [req EXCEPT ![r] = Reject(q)]
                /\ UNCHANGED <<menu, events>>
           ELSE /\ menu' = Append(menu, item)
                /\ IF emitOk
                   THEN /\ events' = Emit("menu:update", <<>>, r)
                        /\ req' = [req EXCEPT ![r] = Respond(q, 201, <<item>>)]
                   ELSE /\ req' = [req EXCEPT ![r] = Reject(q)]
                        /\ UNCHANGED events
    /\ UNCHANGED <<config, orders>>

\* MenuItem.findByIdAndUpdate(id, { available }, { new: true }): the updated
\* document, or null when no document has the id; an undefined field is
\* dropped from the update
MenuUpdated(id, available) ==
    IF id > Len(menu) \/ available = Undef THEN menu
    ELSE [menu EXCEPT ![id].available = available]

\* PATCH /api/menu/:id (v2): requireCashier, findByIdAndUpdate,
\* io.emit("menu:update"), res.json(item); no null check, no try/catch
PatchMenu(r, token, id, available, dbOk, emitOk) ==
    /\ FreeSlot(r)
    /\ HasMenuPatch(variant)
    /\ LET q == Arrive("PATCH /api/menu/:id", token, id, [NoBody EXCEPT !.available = available])
           updated == MenuUpdated(id, available)
           item == IF id > Len(menu) THEN <<>> ELSE <<updated[id]>>
       IN  IF ~requireCashier(token)
           THEN /\ req' = [req EXCEPT ![r] = Respond(q, 401, <<>>)]
                /\ UNCHANGED <<menu, events>>
           ELSE IF ~IsObjectId(id) \/ available.t \notin {"boolean", "undefined"} \/ ~dbOk
           THEN /\ req' = [req EXCEPT ![r] = Reject(q)]
                /\ UNCHANGED <<menu, events>>
           ELSE /\ menu' = updated
                /\ IF emitOk
                   THEN /\ events' = Emit("menu:update", <<>>, r)
                        /\ req' = [req EXCEPT ![r] = Respond(q, 200, item)]
                   ELSE /\ req' = [req EXCEPT ![r] = Reject(q)]
                        /\ UNCHANGED events
    /\ UNCHANGED <<config, orders>>

(***************************************************************************)
(* What clients send.                                                      *)
(***************************************************************************)
Item(name, price, qty) == [name |-> name, price |-> price, qty |-> qty]

ItemDomain ==
    { Item(Str("Soup"), Num(4), Num(2)),      \* well-formed
      Item(Str("Tea"), NumStr(3), Num(1)),    \* price sent as the string "3"
      Item(Undef, Num(4), Num(1)),            \* no name
      Item(Str("Soup"), Undef, Num(1)),       \* no price
      Item(Str("Soup"), Num(4), Undef),       \* no qty
      Item(Str("Soup"), Num(0 - 4), Num(1)) } \* negative price

\* the lists sent: empty, or well-formed items and then any one item
Soups(n) == [k \in 1 .. n |-> Item(Str("Soup"), Num(4), Num(2))]

ItemLists ==
    {<<>>} \cup { Append(Soups(n), i) : n \in 0 .. MaxItems - 1, i \in ItemDomain }

\* a total field in the body of POST /api/orders, or none
ClientTotals == {Undef, Num(99)}

\* table 5 with every list; the well-formed lists also with a total field;
\* table 5.5 and no table with one list
OrderBodies ==
    { [NoBody EXCEPT !.tableId = Num(5), !.items = Items(l)] : l \in ItemLists }
    \cup { [NoBody EXCEPT !.tableId = Num(5), !.items = Items(Soups(n)), !.total = c] :
              n \in 1 .. MaxItems, c \in ClientTotals }
    \cup { [NoBody EXCEPT !.tableId = t, !.items = Items(Soups(1))] : t \in {Frac(5), Undef} }

\* the status field of PATCH /api/orders/:id, and ?status= of GET /api/orders
StatusInputs == {Str(x) : x \in OrderStatuses} \cup {Str("served"), Undef}
StatusQueries == {Undef, Str("pending")}

\* :id of a PATCH: no ObjectId, the first document, an id no document has
PathIds == {0, 1, 9}

MenuBodies ==
    { [NoBody EXCEPT !.name = n, !.price = Num(4)] : n \in {Str("Soup"), Undef} }

AvailableInputs == {Bool(TRUE), Bool(FALSE), Undef}

\* x-access-token on the menu routes, which know the cashier secret alone
MenuTokens == {Undef, Str("cashier-secret")}

(***************************************************************************)
(* The collections outlive the process: it starts on what earlier runs     *)
(* left in them.                                                           *)
(***************************************************************************)
SeedOrder(status) ==
    OrderDoc(1, [tableId |-> Num(5), items |-> <<Item(Str("Soup"), Num(4), Num(2))>>,
                 total |-> Num(8), status |-> Str(status)])

SeedOrders == {<<>>} \cup { <<SeedOrder(st)>> : st \in OrderStatuses }

SeedItem(id, a) ==
    [id |-> id, name |-> Str("Soup"), price |-> Num(4), available |-> Bool(a)]

SeedMenus == { <<>>, <<SeedItem(1, TRUE), SeedItem(2, TRUE)>> }

Init ==
    /\ variant \in Variants
    /\ schema \in Schemas
    /\ env \in [CASHIER_TOKEN : CashierSecrets, KITCHEN_TOKEN : KitchenSecrets]
    /\ menuDefault \in BOOLEAN
    /\ orders \in SeedOrders
    /\ menu \in SeedMenus
    /\ req = [r \in Slots |-> Idle]
    /\ events = <<>>

OrderNext ==
    \E r \in Slots :
        \/ \E body \in OrderBodies, dbOk, emitOk \in BOOLEAN : PostOrders(r, body, dbOk, emitOk)
        \/ \E status \in StatusQueries, dbOk \in BOOLEAN : GetOrders(r, status, dbOk)
        \/ \E token \in Tokens, id \in PathIds, status \in StatusInputs, dbOk \in BOOLEAN :
               PatchOrdersFind(r, token, id, status, dbOk)
        \/ \E dbOk \in BOOLEAN : PatchOrdersSave(r, dbOk)
        \/ \E emitOk \in BOOLEAN : PatchOrdersEmit(r, emitOk)

MenuNext ==
    \E r \in Slots :
        \/ \E token \in MenuTokens, body \in MenuBodies, dbOk, emitOk \in BOOLEAN :
               PostMenu(r, token, body, dbOk, emitOk)
        \/ \E token \in MenuTokens, id \in PathIds, available \in AvailableInputs,
              dbOk, emitOk \in BOOLEAN :
               PatchMenu(r, token, id, available, dbOk, emitOk)
        \/ \E dbOk \in BOOLEAN : GetMenu(r, dbOk)
        \/ \E token \in MenuTokens, dbOk \in BOOLEAN : GetMenuAll(r, token, dbOk)

Next == OrderNext \/ MenuNext

\* The whole server.  Its state space is the product of the order and the
\* menu routes' inputs; the properties below are checked under the
\* specifications that follow, each the server restricted to the routes a
\* property is about.
Spec == Init /\ [][Next]_vars

\* the order routes alone, on an empty menu
OrderInit ==
    /\ Init
    /\ menu = <<>> /\ menuDefault = TRUE
    /\ orders \in {<<>>, <<SeedOrder("pending")>>, <<SeedOrder("ready")>>}
OrderSpec == OrderInit /\ [][OrderNext]_vars

\* order creation alone, on empty collections; the route reads no secret
CreateNext ==
    \E r \in Slots :
        \E body \in OrderBodies, dbOk, emitOk \in BOOLEAN : PostOrders(r, body, dbOk, emitOk)

CreateInit ==
    /\ Init
    /\ menu = <<>> /\ menuDefault = TRUE /\ orders = <<>>
    /\ env = [CASHIER_TOKEN |-> Str("cashier-secret"), KITCHEN_TOKEN |-> Str("kitchen-secret")]
CreateSpec == CreateInit /\ [][CreateNext]_vars

\* status updates and listing alone, on each seeded collection; both Order
\* schema snapshots declare the same status enum
PatchNext ==
    \E r \in Slots :
        \/ \E status \in StatusQueries, dbOk \in BOOLEAN : GetOrders(r, status, dbOk)
        \/ \E token \in Tokens, id \in PathIds, status \in StatusInputs, dbOk \in BOOLEAN :
               PatchOrdersFind(r, token, id, status, dbOk)
        \/ \E dbOk \in BOOLEAN : PatchOrdersSave(r, dbOk)
        \/ \E emitOk \in BOOLEAN : PatchOrdersEmit(r, emitOk)

PatchInit == Init /\ menu = <<>> /\ menuDefault = TRUE /\ schema = "s2"
PatchSpec == PatchInit /\ [][PatchNext]_vars

\* the menu routes alone, in the snapshots that have them; they read the
\* cashier secret only
MenuInit ==
    /\ Init
    /\ orders = <<>> /\ schema = "s2" /\ HasMenu(variant)
    /\ env.KITCHEN_TOKEN = Str("kitchen-secret")
MenuSpec == MenuInit /\ [][MenuNext]_vars

(***************************************************************************)
(* Properties.                                                             *)
(***************************************************************************)
Range(f) == { f[k] : k \in DOMAIN f }

\* the step in which request r arrives (and, for a one-step route, is served)
Arrives(r) == req[r].pc = "idle" /\ req'[r].pc # "idle"

\* the handler of r has ended, with an answer or without
Ended(r) == req[r].pc \in {"done", "rejected"}

\* r is the request that arrived last
Latest(r) == req[r].pc # "idle" /\ \A p \in Slots : p > r => req[p].pc = "idle"

EventsBy(r) == SelectSeq(events, LAMBDA e : e.by = r)

\* the amount a submitted price or quantity denotes: the number itself, or
\* the number a numeric string spells
RECURSIVE SumOfLines(_)
SumOfLines(items) ==
    IF items = <<>> THEN 0
    ELSE Head(items).price.v * Head(items).qty.v + SumOfLines(Tail(items))

Created(r) == req[r].route = "POST /api/orders" /\ req[r].code = 201

\* C1: every order creation answered 201 returns and stores an Order whose
\* total is the sum of price x qty over the submitted items, whatever total
\* field the body carried: two accepted requests with the same items get the
\* same total.
C1_TotalIsServerComputed ==
    \A r \in Slots :
        Created(r) =>
            /\ Len(req[r].out) = 1
            /\ req[r].out[1].total = Num(SumOfLines(req[r].body.items.e))
            /\ req[r].out[1].id \in 1 .. Len(orders)
            /\ orders[req[r].out[1].id].total = req[r].out[1].total
            /\ \A p \in Slots :
                   Created(p) /\ req[p].body.items = req[r].body.items
                       => req[p].out[1].total = req[r].out[1].total

\* C1 witness: a two-item order accepted with total 16 although the body
\* said 99, next to the same items accepted without a total field.
C1_Witness ==
    \E r, p \in Slots :
        /\ Created(r) /\ Created(p)
        /\ Len(req[r].body.items.e) = 2
        /\ req[r].body.total = Num(99) /\ req[p].body.total = Undef
        /\ req[p].body.items = req[r].body.items
        /\ orders[req[r].out[1].id].total = Num(16)

\* an item of the body lacks name, price or qty
ItemMissingField(body) ==
    \E k \in 1 .. Len(body.items.e) :
        Undef \in {body.items.e[k].name, body.items.e[k].price, body.items.e[k].qty}

Malformed(body) ==
    \/ body.items.t = "array" /\ Len(body.items.e) = 0
    \/ ~NumberIsInteger(body.tableId)
    \/ ItemMissingField(body)

\* C2: an order creation whose item list is empty, whose tableId is no
\* integer or one of whose items lacks name, price or qty is answered with a
\* 4xx and leaves the Order store as it was.
C2_MalformedOrderIs400 ==
    [][\A r \in Slots :
          Arrives(r) /\ req'[r].route = "POST /api/orders" /\ Malformed(req'[r].body)
              => req'[r].code \in 400 .. 499 /\ orders' = orders]_vars

\* the token is the cashier secret, and the secret is set
IsCashier(token) == token # Undef /\ token = env.CASHIER_TOKEN

\* r moves in this step
Moves(r) == req'[r] # req[r]

OutsideAllowList(status) == ~(status.t = "string" /\ status.s \in OrderStatuses)

\* C3: a cashier's status update whose status is none of pending, cooking,
\* ready, completed is never answered 200 and no step of it changes the Order
\* store.
C3_BadStatusFails ==
    [][\A r \in Slots :
          /\ Moves(r)
          /\ req'[r].route = "PATCH /api/orders/:id"
          /\ IsCashier(req'[r].token)
          /\ OutsideAllowList(req'[r].body.status)
          => req'[r].code # 200 /\ orders' = orders]_vars

\* C4: a cashier's status update with a listed status, on an id no stored
\* Order has, is answered 404, writes nothing and broadcasts nothing.
C4_UnknownOrderIs404 ==
    [][\A r \in Slots :
          /\ Arrives(r)
          /\ req'[r].route = "PATCH /api/orders/:id"
          /\ IsCashier(req'[r].token)
          /\ ~OutsideAllowList(req'[r].body.status)
          /\ req'[r].id \notin 1 .. Len(orders)
          => req'[r].code = 404 /\ orders' = orders /\ events' = events]_vars

\* C5: every order creation answered 201 has broadcast exactly one order:new
\* event, carrying the Order the store holds.
C5_CreationBroadcastsOnce ==
    \A r \in Slots :
        Created(r) =>
            /\ Len(EventsBy(r)) = 1
            /\ EventsBy(r)[1].name = "order:new"
            /\ EventsBy(r)[1].doc = req[r].out
            /\ req[r].out[1] \in Range(orders)

CashierRoutes == {"GET /api/menu/all", "POST /api/menu", "PATCH /api/menu/:id"}

\* C6: a request to a cashier-only route whose x-access-token is missing or
\* is not the cashier secret changes neither store and broadcasts nothing,
\* whatever its body and whether or not the secret is set.
C6_UnauthorizedNeverMutates ==
    [][\A r \in Slots :
          /\ Arrives(r)
          /\ req'[r].route \in CashierRoutes
          /\ (req'[r].token = Undef \/ req'[r].token # env.CASHIER_TOKEN)
          => menu' = menu /\ orders' = orders /\ events' = events]_vars

\* C7: a cashier's availability update on an id no stored MenuItem has is not
\* answered 200 and emits no menu:update (it is to fail with 404).
C7_UnknownMenuItemIs404 ==
    [][\A r \in Slots :
          /\ Arrives(r)
          /\ req'[r].route = "PATCH /api/menu/:id"
          /\ IsCashier(req'[r].token)
          /\ req'[r].id \notin 1 .. Len(menu)
          => req'[r].code # 200 /\ events' = events]_vars

Listed(r, route) == req[r].route = route /\ req[r].code = 200

\* r set the availability of an item to false and was answered 200 with it
Hid(r) ==
    /\ req[r].route = "PATCH /api/menu/:id" /\ req[r].code = 200
    /\ req[r].body.available = Bool(FALSE)
    /\ Len(req[r].out) = 1 /\ req[r].out[1].id = req[r].id

\* C8: the answer of GET /api/menu holds exactly the stored MenuItems whose
\* available is true, and the answer of GET /api/menu/all holds every stored
\* MenuItem (the menu as it is while the listing is the latest request); a
\* listing that follows a successful SetAvailability(item, false) lacks the
\* item when public and has it when complete.
C8_MenuListings ==
    \A r \in Slots :
        /\ Latest(r) /\ Listed(r, "GET /api/menu") =>
               /\ \A k \in 1 .. Len(req[r].out) : req[r].out[k].available = Bool(TRUE)
               /\ Range(req[r].out) = { m \in Range(menu) : m.available = Bool(TRUE) }
        /\ Latest(r) /\ Listed(r, "GET /api/menu/all") => req[r].out = menu
        /\ r > 1 /\ Hid(r - 1) /\ Listed(r, "GET /api/menu") =>
               \A k \in 1 .. Len(req[r].out) : req[r].out[k].id # req[r - 1].id
        /\ r > 1 /\ Hid(r - 1) /\ Listed(r, "GET /api/menu/all") =>
               \E k \in 1 .. Len(req[r].out) : req[r].out[k].id = req[r - 1].id

\* C8 witness: on a menu of two available items the first is hidden; the
\* public listing that follows returns the second alone.
C8_Witness ==
    /\ MaxReq >= 2
    /\ Hid(1) /\ req[1].id = 1
    /\ Listed(2, "GET /api/menu")
    /\ Len(menu) = 2 /\ Len(req[2].out) = 1 /\ req[2].out[1].id = 2

\* C9: once the write of an order creation has committed, the request is
\* answered 201, whatever becomes of the broadcast.
C9_BroadcastFailureIsSwallowed ==
    [][\A r \in Slots :
          Arrives(r) /\ req'[r].route = "POST /api/orders" /\ orders' # orders
              => req'[r].code = 201]_vars

\* C10: no handler ends without having answered its request.
C10_EveryRequestIsAnswered ==
    \A r \in Slots : Ended(r) => req[r].code # 0

\* the token is a secret the gate of this route accepts, and it was sent
Authorized(token) == token # Undef /\ OrderGate(token)

\* every stored Order's status is one of the four listed values
StatusesListed ==
    \A k \in 1 .. Len(orders) :
        orders[k].status.t = "string" /\ orders[k].status.s \in OrderStatuses

\* C11: the status update is an allow-list, not a forward-only chain: an
\* authorized update of an existing order to a listed status t is never
\* refused, whatever the current status, is answered 200 when it is answered,
\* and its save leaves the stored status equal to t; and in every reachable
\* state every stored Order's status is one of the four listed values.
C11_AnyListedTransition ==
    /\ []StatusesListed
    /\ [][\A r \in Slots :
             /\ Moves(r)
             /\ req'[r].route = "PATCH /api/orders/:id"
             /\ Authorized(req'[r].token)
             /\ ~OutsideAllowList(req'[r].body.status)
             /\ req'[r].id \in 1 .. Len(orders)
             => /\ req'[r].pc = "done" => req'[r].code = 200
                /\ req[r].pc = "save" /\ req'[r].pc = "emit"
                       => orders'[req[r].id].status = req[r].body.status]_vars

\* r is an authorized status update of order id to a listed status that
\* has run to its end and was answered 200
Updated(r, id) ==
    /\ req[r].route = "PATCH /api/orders/:id" /\ req[r].id = id
    /\ Authorized(req[r].token)
    /\ ~OutsideAllowList(req[r].body.status)
    /\ req[r].pc = "done" /\ req[r].code = 200

\* the order:update broadcasts for order id, in the order they were sent
UpdatesOf(id) ==
    SelectSeq(events, LAMBDA e : e.name = "order:update" /\ e.doc[1].id = id)

\* C12: once two authorized status updates of the same order that were in
\* flight together have both completed, the status carried by the last
\* order:update broadcast for that order is the status held in the store.
C12_LastBroadcastIsStored ==
    \A id \in 1 .. Len(orders) :
        \A a, b \in Slots :
            /\ a # b /\ Updated(a, id) /\ Updated(b, id)
            /\ UpdatesOf(id) # <<>>
            => UpdatesOf(id)[Len(UpdatesOf(id))].doc[1].status = orders[id].status

============================================================================
